---- MODULE Spec2Model ----
(***************************************************************************)
(* Verification model of paddle/fluid/operators/reverse_op.cc: the shape   *)
(* and attribute validator ReverseOp::InferShape, the variable type        *)
(* inference ReverseOpVarTypeInference, the gradient maker                 *)
(* ReverseGradMaker::Apply, and the dense / list kernel they feed.         *)
(* The kernel lives in reverse_op.h; it is modelled from its documented     *)
(* semantics (dense flip along the normalized axes, list order reversal).  *)
(***************************************************************************)
EXTENDS Integers, Sequences, FiniteSets, TLC

VARIABLES ctx, xVar, outVar, verdict, trace, xData, outData, grad_ops,
          outGrad, xGrad, phase

vars == <<ctx, xVar, outVar, verdict, trace, xData, outData, grad_ops,
          outGrad, xGrad, phase>>

(* ------------------------------ bounds --------------------------------- *)
MaxRank == 2
MaxExtent == 2
MaxAxisLen == 2

(* ------------------------- small generic helpers ----------------------- *)
RECURSIVE SeqsUpTo(_, _)
SeqsUpTo(S, n) ==
  IF n = 0 THEN {<<>>}
  ELSE LET shorter == SeqsUpTo(S, n - 1)
       IN shorter \cup {Append(s, e) : s \in {t \in shorter : Len(t) = n - 1}, e \in S}

RECURSIVE Product(_, _, _)
Product(dims, lo, hi) ==
  IF lo > hi THEN 1 ELSE dims[lo] * Product(dims, lo + 1, hi)

Numel(dims) == Product(dims, 1, Len(dims))

Iota(n) == [i \in 1..n |-> i]

(* --------------------- documented cases of the op ---------------------- *)
Case1Dims == <<3, 5>>
Case1Axis == <<0>>
Case1X == <<1, 2, 3, 4, 5, 6, 7, 8, 9, 10, 11, 12, 13, 14, 15>>
Case1Out == <<11, 12, 13, 14, 15, 6, 7, 8, 9, 10, 1, 2, 3, 4, 5>>

Case2Dims == <<2, 2, 4>>
Case2Axis == <<0, 2>>
Case2X == <<1, 2, 3, 4, 5, 6, 7, 8, 9, 10, 11, 12, 13, 14, 15, 16>>
Case2Out == <<12, 11, 10, 9, 16, 15, 14, 13, 4, 3, 2, 1, 8, 7, 6, 5>>

(* ------------------------------ inputs --------------------------------- *)
VarTypes == {"LOD_TENSOR", "LOD_TENSOR_ARRAY"}
DTypes == {"int32", "uint8", "int64", "bool", "float32", "float64"}

Shapes == SeqsUpTo(0..MaxExtent, MaxRank) \cup {Case1Dims, Case2Dims}
AxisValues == (0 - (MaxRank + 1))..MaxRank
AxisLists == SeqsUpTo(AxisValues, MaxAxisLen)

\* dims of an output variable nobody has assigned yet, and a stale shape
Unassigned == <<-1>>
StaleDims == <<7>>

(* ------------------- ReverseOp::InferShape (lines 26-68) --------------- *)
Result(st, d, tr) == [status |-> st, dims |-> d, trace |-> tr]

ListSizeOk(axis) == Len(axis) = 1

\* variant: enforces the value the diagnostic text names
ListAxisOk_One(axis) == axis[1] = 1

ListAxisOk(axis) == axis[1] = 0

\* variant: the IsRuntime guard dropped
ListSetsShape_Always(isRuntime) == TRUE

ListSetsShape(isRuntime) == ~isRuntime

AxisNotEmpty(axis) == axis # <<>>

\* variant: ENFORCE_LE in place of ENFORCE_LT
AxisLessThanRank_LE(a, rank) == a <= rank

AxisLessThanRank(a, rank) == a < rank

\* variants: ENFORCE_GT in place of ENFORCE_GE; negative entries refused
AxisGreaterEqual_Strict(a, rank) == a > 0 - rank

AxisGreaterEqual_NonNegative(a, rank) == a >= 0

AxisGreaterEqual(a, rank) == a >= 0 - rank

RECURSIVE CheckAxis(_, _, _, _)
CheckAxis(axis, rank, i, tr) ==
  IF i > Len(axis) THEN [status |-> "OK", trace |-> tr]
  ELSE IF ~AxisLessThanRank(axis[i], rank)
       THEN [status |-> "OutOfRange", trace |-> Append(tr, "ENFORCE_LT")]
  ELSE IF ~AxisGreaterEqual(axis[i], rank)
       THEN [status |-> "OutOfRange", trace |-> tr \o <<"ENFORCE_LT", "ENFORCE_GE">>]
  ELSE CheckAxis(axis, rank, i + 1, tr \o <<"ENFORCE_LT", "ENFORCE_GE">>)

ListBranch(xdims, axis, isRuntime, outdims, tr) ==
  IF ~ListSizeOk(axis)
  THEN Result("InvalidArgument", outdims, Append(tr, "ENFORCE_SIZE"))
  ELSE IF ~ListAxisOk(axis)
  THEN Result("InvalidArgument", outdims, tr \o <<"ENFORCE_SIZE", "ENFORCE_AXIS0">>)
  ELSE IF ListSetsShape(isRuntime)
  THEN Result("OK", xdims,
              tr \o <<"ENFORCE_SIZE", "ENFORCE_AXIS0", "GetInputDim", "SetOutputDim">>)
  ELSE Result("OK", outdims, tr \o <<"ENFORCE_SIZE", "ENFORCE_AXIS0">>)

\* variant: SetOutputDim hoisted above the checks
DenseBranch_SetFirst(xdims, axis, outdims, tr) ==
  IF ~AxisNotEmpty(axis)
  THEN Result("InvalidArgument", xdims,
              tr \o <<"GetInputDim", "SetOutputDim", "ENFORCE_NE">>)
  ELSE LET r == CheckAxis(axis, Len(xdims), 1,
                          tr \o <<"GetInputDim", "SetOutputDim", "ENFORCE_NE">>)
       IN Result(r.status, xdims, r.trace)

DenseBranch(xdims, axis, outdims, tr) ==
  IF ~AxisNotEmpty(axis)
  THEN Result("InvalidArgument", outdims, tr \o <<"GetInputDim", "ENFORCE_NE">>)
  ELSE LET r == CheckAxis(axis, Len(xdims), 1, tr \o <<"GetInputDim", "ENFORCE_NE">>)
       IN IF r.status # "OK"
          THEN Result(r.status, outdims, r.trace)
          ELSE Result("OK", xdims, Append(r.trace, "SetOutputDim"))

InferShape(c, x, outdims) ==
  IF ~c.hasX THEN Result("NotFound", outdims, <<"HasInput">>)
  ELSE IF ~c.hasOut THEN Result("NotFound", outdims, <<"HasInput", "HasOutput">>)
  ELSE IF x.type = "LOD_TENSOR_ARRAY"
       THEN ListBranch(x.dims, c.axis, c.isRuntime, outdims, <<"HasInput", "HasOutput">>)
       ELSE DenseBranch(x.dims, c.axis, outdims, <<"HasInput", "HasOutput">>)

(* -------- ReverseOpVarTypeInference::operator() (lines 71-77) ---------- *)
\* variant: the dtype copy left out
InferVarType_TypeOnly(x, out) == [out EXCEPT !.type = x.type]

InferVarType(x, out) == [out EXCEPT !.type = x.type, !.dtype = x.dtype]

(* ---------------- ReverseGradMaker::Apply (lines 120-131) -------------- *)
GradVarName(name) == <<name, "@GRAD">>

ForwardOp(axis) == [type |-> "reverse", X |-> "X", Out |-> "Out", axis |-> axis]

\* variants: the node typed as the alias; only the first axis entry passed on
Apply_GradType(fwd) ==
  [type |-> "reverse_grad",
   X    |-> GradVarName(fwd.Out),
   Out  |-> GradVarName(fwd.X),
   axis |-> fwd.axis]

Apply_FirstAxis(fwd) ==
  [type |-> "reverse",
   X    |-> GradVarName(fwd.Out),
   Out  |-> GradVarName(fwd.X),
   axis |-> <<fwd.axis[1]>>]

Apply(fwd) ==
  [type |-> "reverse",
   X    |-> GradVarName(fwd.Out),
   Out  |-> GradVarName(fwd.X),
   axis |-> fwd.axis]

\* SingleGradOpMaker: one fresh node, filled by Apply, returned alone
SingleGradOpMaker(fwd) == <<Apply(fwd)>>

(* ------------------- kernel semantics (reverse_op.h) ------------------- *)
Normalize(a, rank) == IF a < 0 THEN a + rank ELSE a

\* the per-dimension flags: dimension k (0-based) is reversed iff some
\* entry of axis normalizes to k
ReverseAxis(axis, rank) ==
  [k \in 0..(rank - 1) |-> \E j \in 1..Len(axis) : Normalize(axis[j], rank) = k]

\* variant: the whole buffer reversed, whatever the dimension
FlipAlong_Whole(data, dims, k) == [p \in 1..Len(data) |-> data[Len(data) + 1 - p]]

\* flip of a row-major buffer along dimension k (0-based), by factoring the
\* shape into outer / axis / inner segments
FlipAlong(data, dims, k) ==
  LET n     == dims[k + 1]
      inner == Product(dims, k + 2, Len(dims))
  IN [p \in 1..Len(data) |->
        LET q == p - 1
            o == q \div (n * inner)
            j == (q \div inner) % n
            i == q % inner
        IN data[o * n * inner + (n - 1 - j) * inner + i + 1]]

RECURSIVE ReverseDims(_, _, _, _)
ReverseDims(data, dims, rev, k) ==
  IF k >= Len(dims) THEN data
  ELSE ReverseDims(IF rev[k] THEN FlipAlong(data, dims, k) ELSE data, dims, rev, k + 1)

ReverseKernel(data, dims, axis) ==
  ReverseDims(data, dims, ReverseAxis(axis, Len(dims)), 0)

\* TensorList with axis = [0]: position k holds the tensor formerly at n-1-k
ReverseList(list) == [k \in 1..Len(list) |-> list[Len(list) + 1 - k]]

Compute(x, data, axis) ==
  IF x.type = "LOD_TENSOR_ARRAY" THEN ReverseList(data)
  ELSE ReverseKernel(data, x.dims, axis)

(* ------------------------------ state ---------------------------------- *)
NoData == <<>>

InitCommon ==
  /\ verdict = "none"
  /\ trace = <<>>
  /\ xData = Iota(Numel(xVar.dims))
  /\ outData = NoData
  /\ grad_ops = <<>>
  /\ outGrad = NoData
  /\ xGrad = NoData
  /\ phase = "new"

Init ==
  /\ ctx \in [hasX : BOOLEAN, hasOut : BOOLEAN, isRuntime : BOOLEAN, axis : AxisLists]
  /\ xVar \in [type : VarTypes, dtype : {"float32"}, dims : Shapes, lod_level : {0}]
  /\ outVar \in [type : {xVar.type}, dtype : {xVar.dtype},
                 dims : {Unassigned, StaleDims}, lod_level : {0}]
  /\ InitCommon

\* the validator runs once on the context
InferShapeAct ==
  /\ phase = "new"
  /\ LET r == InferShape(ctx, xVar, outVar.dims)
     IN /\ verdict' = r.status
        /\ trace' = r.trace
        /\ outVar' = [outVar EXCEPT !.dims = r.dims]
  /\ phase' = "shaped"
  /\ UNCHANGED <<ctx, xVar, xData, outData, grad_ops, outGrad, xGrad>>

\* the kernel runs at runtime, only behind a successful InferShape
ComputeAct ==
  /\ phase = "shaped"
  /\ verdict = "OK"
  /\ ctx.isRuntime
  /\ outData' = Compute(xVar, xData, ctx.axis)
  /\ phase' = "computed"
  /\ UNCHANGED <<ctx, xVar, outVar, verdict, trace, xData, grad_ops, outGrad, xGrad>>

\* autodiff asks the gradient maker for the backward node of a valid op
GradMakerAct ==
  /\ verdict = "OK"
  /\ grad_ops = <<>>
  /\ phase \in {"shaped", "computed"}
  /\ grad_ops' = grad_ops \o SingleGradOpMaker(ForwardOp(ctx.axis))
  /\ UNCHANGED <<ctx, xVar, outVar, verdict, trace, xData, outData, outGrad, xGrad, phase>>

\* the backward node is run like any reverse op: InferShape, then the kernel
BackwardAct ==
  /\ phase = "computed"
  /\ grad_ops # <<>>
  /\ \E g \in {outData, [i \in 1..Len(outData) |-> 100 + i]} :
       LET op == grad_ops[1]
           gctx == [hasX |-> TRUE, hasOut |-> TRUE, isRuntime |-> TRUE, axis |-> op.axis]
           gvar == [xVar EXCEPT !.dims = outVar.dims]
           r == InferShape(gctx, gvar, Unassigned)
       IN /\ r.status = "OK"
          /\ outGrad' = g
          /\ xGrad' = Compute(xVar, g, op.axis)
  /\ phase' = "backward"
  /\ UNCHANGED <<ctx, xVar, outVar, verdict, trace, xData, outData, grad_ops>>

Next == InferShapeAct \/ ComputeAct \/ GradMakerAct \/ BackwardAct

Spec == Init /\ [][Next]_vars

(* ------------- type inference, checked on its own contexts ------------- *)
TypeInit ==
  /\ ctx \in [hasX : {TRUE}, hasOut : {TRUE}, isRuntime : {FALSE}, axis : {<<0>>}]
  /\ xVar \in [type : VarTypes, dtype : DTypes, dims : Shapes, lod_level : 0..1]
  /\ outVar \in [type : VarTypes, dtype : DTypes,
                 dims : {Unassigned, StaleDims}, lod_level : 0..1]
  /\ InitCommon

InferVarTypeAct ==
  /\ phase = "new"
  /\ outVar' = InferVarType(xVar, outVar)
  /\ phase' = "typed"
  /\ UNCHANGED <<ctx, xVar, verdict, trace, xData, outData, grad_ops, outGrad, xGrad>>

TypeNext == InferVarTypeAct

TypeSpec == TypeInit /\ [][TypeNext]_vars

(* ======================= properties of the operator ==================== *)
Dense == xVar.type = "LOD_TENSOR"
TensorList == xVar.type = "LOD_TENSOR_ARRAY"
Bound == ctx.hasX /\ ctx.hasOut
Validated == verdict # "none"
KernelRan == phase \in {"computed", "backward"}
Rank == Len(xVar.dims)
InRange(a, r) == (0 - r) <= a /\ a < r
AllInRange(axis, r) == \A j \in 1..Len(axis) : InRange(axis[j], r)
Occurs(e, seq) == \E j \in 1..Len(seq) : seq[j] = e

\* C1: for a dense Tensor with X and Out bound, InferShape succeeds iff axis
\* is non-empty and every entry a satisfies -rank <= a < rank; an empty axis
\* fails with InvalidArgument, an out-of-range entry fails with OutOfRange,
\* and on success the dims of Out equal the dims of X.
C1_DenseVerdict ==
  (Validated /\ Bound /\ Dense) =>
     /\ (verdict = "OK") <=> (ctx.axis # <<>> /\ AllInRange(ctx.axis, Rank))
     /\ (ctx.axis = <<>>) => verdict = "InvalidArgument"
     /\ (ctx.axis # <<>> /\ ~AllInRange(ctx.axis, Rank)) => verdict = "OutOfRange"
     /\ (verdict = "OK") => outVar.dims = xVar.dims

C1_Witness ==
  /\ Validated /\ Bound /\ Dense /\ verdict = "OK"
  /\ Len(ctx.axis) = 2 /\ ctx.axis[1] = 0 - Rank /\ ctx.axis[2] = Rank - 1
  /\ outVar.dims = xVar.dims

\* C2: for a TensorList with X and Out bound, InferShape succeeds iff axis is
\* exactly <<0>>; any other length fails with InvalidArgument on the size
\* check, before axis[0] is read; a singleton other than 0 fails with
\* InvalidArgument on the value check, which follows the size check.
C2_ListVerdict ==
  (Validated /\ Bound /\ TensorList) =>
     /\ (verdict = "OK") <=> (ctx.axis = <<0>>)
     /\ (Len(ctx.axis) # 1) =>
           /\ verdict = "InvalidArgument"
           /\ trace[Len(trace)] = "ENFORCE_SIZE"
           /\ ~Occurs("ENFORCE_AXIS0", trace)
     /\ (Len(ctx.axis) = 1 /\ ctx.axis[1] # 0) =>
           /\ verdict = "InvalidArgument"
           /\ trace[Len(trace)] = "ENFORCE_AXIS0"
           /\ trace[Len(trace) - 1] = "ENFORCE_SIZE"
     /\ (Len(ctx.axis) = 1) => trace[4] = "ENFORCE_AXIS0" /\ trace[3] = "ENFORCE_SIZE"

C2_Witness ==
  /\ Validated /\ Bound /\ TensorList
  /\ ctx.axis = <<1>> /\ verdict = "InvalidArgument"

\* C3: the gradient maker emits exactly one backward node, of type reverse,
\* reading the gradient of Out, writing the gradient of X, with the forward
\* axis attribute unchanged.
C3_GradNode ==
  (grad_ops # <<>>) =>
     /\ Len(grad_ops) = 1
     /\ grad_ops[1].type = "reverse"
     /\ grad_ops[1].type # "reverse_grad"
     /\ grad_ops[1].X = <<"Out", "@GRAD">>
     /\ grad_ops[1].Out = <<"X", "@GRAD">>
     /\ grad_ops[1].axis = ctx.axis

C3_Witness ==
  /\ grad_ops # <<>> /\ Len(ctx.axis) = 2 /\ ctx.axis[1] # ctx.axis[2]

\* index tuples of a shape, their row-major offset, and the flip along a set
IndexTuples(dims) ==
  {f \in [1..Len(dims) -> UNION {0..(dims[k] - 1) : k \in 1..Len(dims)}] :
      \A k \in 1..Len(dims) : f[k] < dims[k]}

RECURSIVE OffsetFrom(_, _, _)
OffsetFrom(idx, dims, k) ==
  IF k > Len(dims) THEN 0
  ELSE idx[k] * Product(dims, k + 1, Len(dims)) + OffsetFrom(idx, dims, k + 1)

At(data, dims, idx) == data[OffsetFrom(idx, dims, 1) + 1]

AxisSet(axis, r) == {(IF axis[j] < 0 THEN axis[j] + r ELSE axis[j]) : j \in 1..Len(axis)}

FlipIndex(idx, dims, A) ==
  [k \in 1..Len(dims) |-> IF (k - 1) \in A THEN dims[k] - 1 - idx[k] ELSE idx[k]]

\* C4: for a dense Tensor behind a valid axis list, the output at every index
\* equals the input at the index flipped in each normalized axis; the two
\* documented cases give the documented outputs, and axis <<-1>> on rank 1
\* gives the result of axis <<0>>.
C4_KernelSemantics ==
  (KernelRan /\ Dense) =>
     /\ Len(outData) = Len(xData)
     /\ \A idx \in IndexTuples(xVar.dims) :
           At(outData, xVar.dims, idx)
             = At(xData, xVar.dims, FlipIndex(idx, xVar.dims, AxisSet(ctx.axis, Rank)))
     /\ (xVar.dims = Case1Dims /\ ctx.axis = Case1Axis) =>
           xData = Case1X /\ outData = Case1Out
     /\ (xVar.dims = Case2Dims /\ ctx.axis = Case2Axis) =>
           xData = Case2X /\ outData = Case2Out
     /\ (Rank = 1 /\ ctx.axis = <<-1>>) =>
           outData = ReverseKernel(xData, xVar.dims, <<0>>)

C4_Witness ==
  /\ KernelRan /\ Dense /\ xVar.dims = Case2Dims /\ ctx.axis = Case2Axis
  /\ outData = Case2Out

\* C5: reverse is an involution on every accepted input, so the backward
\* node (reverse with the forward axis) undoes the forward permutation.
C5_Involution ==
  /\ KernelRan => Compute(xVar, outData, ctx.axis) = xData
  /\ (phase = "backward") =>
        /\ Compute(xVar, xGrad, ctx.axis) = outGrad
        /\ (outGrad = outData) => xGrad = xData

C5_Witness ==
  /\ phase = "backward" /\ Dense /\ outGrad = outData
  /\ Len(ctx.axis) = 2 /\ ctx.axis[1] # ctx.axis[2]
  /\ outData # xData /\ xGrad = xData

\* each listed flip applied in order, one flip per entry of the list
RECURSIVE FlipInOrder(_, _, _, _)
FlipInOrder(data, dims, axis, j) ==
  IF j > Len(axis) THEN data
  ELSE FlipInOrder(FlipAlong(data, dims, Normalize(axis[j], Len(dims))), dims, axis, j + 1)

\* the normalized entries of the list, later repetitions dropped
RECURSIVE Distinct(_, _, _)
Distinct(axis, r, j) ==
  IF j = 0 THEN <<>>
  ELSE LET rest == Distinct(axis, r, j - 1)
           a    == Normalize(axis[j], r)
       IN IF Occurs(a, rest) THEN rest ELSE Append(rest, a)

HasDuplicate(axis, r) ==
  \E i, j \in 1..Len(axis) : i < j /\ Normalize(axis[i], r) = Normalize(axis[j], r)

IsDenseCheck(e) == e \in {"ENFORCE_NE", "ENFORCE_LT", "ENFORCE_GE"}

InferShapeStep == phase = "new" /\ phase' = "shaped"

\* C7: for a bound TensorList with axis <<0>>, InferShape succeeds, assigns
\* the dims of X to Out only at build time, leaves the dims of Out as they
\* were at runtime, and in both cases runs none of the dense-tensor checks.
C7_ListShape ==
  [][(InferShapeStep /\ Bound /\ TensorList /\ ctx.axis = <<0>>) =>
        /\ verdict' = "OK"
        /\ (~ctx.isRuntime) => outVar'.dims = xVar.dims
        /\ ctx.isRuntime => outVar'.dims = outVar.dims
        /\ \A j \in 1..Len(trace') : ~IsDenseCheck(trace'[j])]_vars

C7_Witness ==
  /\ phase = "shaped" /\ Bound /\ TensorList /\ ctx.axis = <<0>>
  /\ ctx.isRuntime /\ verdict = "OK"
  /\ Rank = 0 /\ outVar.dims = Unassigned

\* C8: type inference sets the variant and the dtype of Out to those of X,
\* for both variants, and changes no other field of Out and nothing of X.
C8_VarType ==
  [][(phase = "new" /\ phase' = "typed") =>
        /\ outVar'.type = xVar.type
        /\ outVar'.dtype = xVar.dtype
        /\ outVar'.dims = outVar.dims
        /\ outVar'.lod_level = outVar.lod_level
        /\ xVar' = xVar]_vars

C8_Witness ==
  /\ phase = "typed" /\ TensorList
  /\ outVar.type = "LOD_TENSOR_ARRAY" /\ outVar.dtype = "int64"
  /\ xVar.dtype = "int64"
  /\ outVar.dims = StaleDims /\ outVar.lod_level # xVar.lod_level

\* C9: a failing InferShape leaves Out exactly as it was: the binding checks
\* come first and SetOutputDim comes only after every check of the branch.
C9_NoPartialEffect ==
  [][InferShapeStep =>
        /\ trace'[1] = "HasInput"
        /\ (ctx.hasX) => trace'[2] = "HasOutput"
        /\ \A j \in 1..Len(trace') : trace'[j] = "SetOutputDim" => j = Len(trace')
        /\ (verdict' # "OK") =>
              /\ outVar' = outVar
              /\ ~Occurs("SetOutputDim", trace')]_vars

C9_Witness ==
  /\ phase = "shaped" /\ Dense /\ Bound /\ verdict = "OutOfRange"
  /\ Len(ctx.axis) = 2 /\ InRange(ctx.axis[1], Rank)
  /\ outVar.dims = StaleDims

\* C10: a bound dense Tensor of rank 0 is rejected for every axis list (empty:
\* InvalidArgument, non-empty: OutOfRange), so the kernel never sees one.
C10_RankZero ==
  /\ (Validated /\ Bound /\ Dense /\ Rank = 0) =>
        /\ (ctx.axis = <<>>) => verdict = "InvalidArgument"
        /\ (ctx.axis # <<>>) => verdict = "OutOfRange"
  /\ (KernelRan /\ Dense) => Rank # 0

C10_Witness ==
  /\ phase = "shaped" /\ Bound /\ Dense /\ Rank = 0
  /\ ctx.axis = <<0>> /\ verdict = "OutOfRange"

====
